---------------------------- MODULE Spec2Model ----------------------------
(***************************************************************************)
(* Gmail-to-sheets: one run of EmailProcessor.process_emails lists the     *)
(* unread messages, and for every id that is not in the processed set      *)
(* fetches, parses, filters, appends a row to the sheet, marks the message *)
(* read and records the id; the set is saved to the state file at the end. *)
(* The model covers src/src/main.py, the retry loops and the single calls  *)
(* of src/src/gmail_service.py and src/src/sheets_service.py, and the      *)
(* parser of src/src/email_parser.py.                                      *)
(***************************************************************************)
EXTENDS Integers, Sequences, FiniteSets, TLC

(***************************************************************************)
(* Bounds of the model.                                                    *)
(***************************************************************************)
\* number of runs of the script in one behaviour
MaxRuns == 2
\* largest configured value of MAX_RETRIES (config.py sets 3)
MaxRetries == 2
\* largest number of parts of a multi-part payload (parser specification)
MaxParts == 2

\* message ids of the mailbox (opaque provider ids)
Ids == {"A", "B"}

\* outcome of one provider call: it returns, raises GoogleAPIError, or
\* raises anything else
Outcomes == {"ok", "api_error", "other_error"}

(***************************************************************************)
(* Text.  A text is a sequence of characters; the provider delivers body   *)
(* data as base64url, one code unit per byte here.                         *)
(***************************************************************************)
\* base64.urlsafe_b64decode: code unit -> byte
B64Byte(u) ==
    CASE u = "YQ" -> 97
      [] u = "Yg" -> 98
      [] u = "IA" -> 32
      [] u = "Cg" -> 10
      [] u = "PA" -> 60
      [] u = "Pg" -> 62
      [] u = "_w" -> 255

B64Decode(data) == [i \in 1..Len(data) |-> B64Byte(data[i])]

\* bytes.decode("utf-8"): a byte above 127 that starts no valid sequence raises
Utf8Valid(bytes) == \A i \in 1..Len(bytes) : bytes[i] < 128

Utf8Char(b) ==
    CASE b = 97 -> "a"
      [] b = 98 -> "b"
      [] b = 32 -> " "
      [] b = 10 -> "\n"
      [] b = 60 -> "<"
      [] b = 62 -> ">"

Utf8Decode(bytes) == [i \in 1..Len(bytes) |-> Utf8Char(bytes[i])]

\* the result of a computation that may raise
Raised == [raised |-> TRUE]
Returned(v) == [raised |-> FALSE, value |-> v]

\* base64.urlsafe_b64decode(data).decode("utf-8")
DecodeData(data) ==
    LET bytes == B64Decode(data)
    IN  IF Utf8Valid(bytes) THEN Returned(Utf8Decode(bytes)) ELSE Raised

IsSpace(c) == c \in {" ", "\n"}

\* str.strip(): drop leading and trailing whitespace
Strip(s) ==
    LET keep == {i \in 1..Len(s) : ~IsSpace(s[i])}
    IN  IF keep = {} THEN <<>>
        ELSE LET lo == CHOOSE i \in keep : \A j \in keep : i <= j
                 hi == CHOOSE i \in keep : \A j \in keep : j <= i
             IN  SubSeq(s, lo, hi)

\* re.sub(r"<[^>]+>", "", s): scanning from position i, a "<" followed by at
\* least one non-">" character and then a ">" is removed with what it encloses
RECURSIVE RemoveTags(_, _)
RemoveTags(s, i) ==
    IF i > Len(s) THEN <<>>
    ELSE LET closes == {j \in (i + 2)..Len(s) :
                            /\ s[j] = ">"
                            /\ \A k \in (i + 1)..(j - 1) : s[k] # ">"}
         IN  IF s[i] = "<" /\ closes # {}
             THEN RemoveTags(s, (CHOOSE j \in closes : TRUE) + 1)
             ELSE <<s[i]>> \o RemoveTags(s, i + 1)

\* EmailParser._html_to_text for markup that has no Markdown rendering: the
\* tags are removed, as the fallback does, and html2text ends the text it
\* returns with a blank line
HtmlToText(html_content) == RemoveTags(html_content, 1) \o <<"\n", "\n">>

\* the `in` operator on strings: flt occurs in s as a substring
Contains(flt, s) ==
    \E i \in 1..(Len(s) - Len(flt) + 1) : SubSeq(s, i, i + Len(flt) - 1) = flt

(***************************************************************************)
(* EmailParser                                                             *)
(***************************************************************************)
HasData(part) == "data" \in DOMAIN part.body

\* the text/plain branch of the scan: taken by a text/plain part, and it ends
\* the scan only when the part's body carries data
PlainEndsScan(part) == part.mimeType = "text/plain" /\ HasData(part)

\* EmailParser._get_email_body, the loop over payload["parts"] from part i on,
\* body being the value of the local variable so far
RECURSIVE ScanParts(_, _, _)
ScanParts(parts, i, body) ==
    IF i > Len(parts) THEN Returned(body)
    ELSE LET part == parts[i]
         IN  IF part.mimeType = "text/plain"
             THEN IF PlainEndsScan(part)
                  THEN DecodeData(part.body.data)
                  ELSE ScanParts(parts, i + 1, body)
             ELSE IF part.mimeType = "text/html"
             THEN IF HasData(part)
                  THEN LET d == DecodeData(part.body.data)
                       IN  IF d.raised THEN Raised
                           ELSE ScanParts(parts, i + 1, HtmlToText(d.value))
                  ELSE ScanParts(parts, i + 1, body)
             ELSE ScanParts(parts, i + 1, body)

\* mutant: the scan does not stop at a text/plain part, so a later text/html
\* part replaces its text
RECURSIVE ScanPartsNoBreak(_, _, _)
ScanPartsNoBreak(parts, i, body) ==
    IF i > Len(parts) THEN Returned(body)
    ELSE LET part == parts[i]
         IN  IF part.mimeType \in {"text/plain", "text/html"} /\ HasData(part)
             THEN LET d == DecodeData(part.body.data)
                  IN  IF d.raised THEN Raised
                      ELSE ScanPartsNoBreak(parts, i + 1,
                               IF part.mimeType = "text/html"
                               THEN HtmlToText(d.value) ELSE d.value)
             ELSE ScanPartsNoBreak(parts, i + 1, body)

GetEmailBody_NoBreak(payload) ==
    LET r == IF "parts" \in DOMAIN payload
             THEN ScanPartsNoBreak(payload.parts, 1, <<>>)
             ELSE IF "data" \in DOMAIN payload.body
                  THEN DecodeData(payload.body.data)
                  ELSE Returned(<<>>)
    IN  IF r.raised THEN Raised ELSE Returned(Strip(r.value))

\* EmailParser._get_email_body
GetEmailBody(payload) ==
    LET r == IF "parts" \in DOMAIN payload
             THEN ScanParts(payload.parts, 1, <<>>)
             ELSE IF "data" \in DOMAIN payload.body
                  THEN DecodeData(payload.body.data)
                  ELSE Returned(<<>>)
    IN  IF r.raised THEN Raised ELSE Returned(Strip(r.value))

\* EmailParser._get_header: the value of the first header of that name
GetHeader(headers, name) ==
    LET hits == {i \in 1..Len(headers) : headers[i].name = name}
    IN  IF hits = {} THEN <<>>
        ELSE headers[CHOOSE i \in hits : \A j \in hits : i <= j].value

\* the value parse_email returns when it caught an exception
None == [none |-> TRUE]

\* EmailParser.parse_email
ParseEmail(message) ==
    LET body == GetEmailBody(message.payload)
    IN  IF body.raised THEN None
        ELSE [from    |-> GetHeader(message.payload.headers, "From"),
              subject |-> GetHeader(message.payload.headers, "Subject"),
              date    |-> GetHeader(message.payload.headers, "Date"),
              content |-> body.value]


(***************************************************************************)
(* The mailbox: the messages the provider holds.                           *)
(***************************************************************************)
Header(n, v) == [name |-> n, value |-> v]

\* " a\n"
PlainData == <<"IA", "YQ", "Cg">>
\* "<a>b": an anchor without a target, which html2text renders as its text
HtmlData == <<"PA", "YQ", "Pg", "Yg">>
\* the byte 0xFF, which is not UTF-8
BadData == <<"_w">>

Part(mime, data) == [mimeType |-> mime, body |-> [size |-> Len(data), data |-> data]]
EmptyPart(mime) == [mimeType |-> mime, body |-> [size |-> 0]]

\* a multi-part message whose subject is "ab"
MsgInvoice ==
    [payload |->
        [headers |-> <<Header("From", <<"a">>), Header("Subject", <<"a", "b">>),
                       Header("Date", <<"b">>)>>,
         parts |-> <<Part("text/plain", PlainData), Part("text/html", HtmlData)>>]]

\* a single-part message whose subject is "a"
MsgNews ==
    [payload |->
        [headers |-> <<Header("From", <<"b">>), Header("Subject", <<"a">>)>>,
         body |-> [size |-> 4, data |-> HtmlData]]]

\* a single-part message whose body is not UTF-8: parse_email returns None
MsgBad ==
    [payload |->
        [headers |-> <<Header("Subject", <<"b">>)>>,
         body |-> [size |-> 1, data |-> BadData]]]

Messages == {MsgInvoice, MsgNews, MsgBad}

\* the mailboxes of two messages, up to renaming the ids (the listing
\* returns the ids in any order)
Mailboxes ==
    {[A |-> MsgInvoice, B |-> MsgInvoice], [A |-> MsgInvoice, B |-> MsgNews],
     [A |-> MsgInvoice, B |-> MsgBad], [A |-> MsgNews, B |-> MsgNews],
     [A |-> MsgNews, B |-> MsgBad], [A |-> MsgBad, B |-> MsgBad]}

\* the values SUBJECT_FILTER is configured to: "" (config.py) and "b"
Filters == {<<>>, <<"b">>}

\* the orders in which the elements of a set can be listed
Orders(S) ==
    {s \in [1..Cardinality(S) -> S] : \A i, j \in 1..Cardinality(S) : s[i] = s[j] => i = j}

Range(s) == {s[i] : i \in 1..Len(s)}

(***************************************************************************)
(* State                                                                   *)
(***************************************************************************)
VARIABLES
    MAX_RETRIES,      \* config.MAX_RETRIES
    SUBJECT_FILTER,   \* config.SUBJECT_FILTER
    mailbox,          \* provider: id -> message
    unread,           \* provider: the ids carrying the UNREAD label (fewer than
                      \* the 100 that one listing returns)
    sheet,            \* provider: id -> number of rows appended for the id (a row
                      \* holds from, subject, date and content[:1000] of its message)
    stateFile,        \* the file at STATE_FILE_PATH
    now,              \* datetime.now(), one tick per run
    pc,               \* where the script is
    processed_ids,    \* EmailProcessor.processed_ids
    emails,           \* process_emails: emails
    idx,              \* process_emails: position of the for loop in emails
    counts,           \* process_emails: processed_count, skipped_count
    attempt,          \* the retry loops' attempt
    \* history of the current run
    loaded,           \* what _load_state returned
    fileAtStart,      \* the state file as the run found it
    site,             \* the retry loop entered last: "none", "list", "append"
    calls,            \* provider calls made by that retry loop
    lastOutcome,      \* outcome of its latest provider call
    gateSkipped,      \* ids skipped as already processed
    fetched,          \* ids get_email_details was called for
    filtered,         \* ids skipped by the subject filter
    appendTried,      \* ids append_email_row was called for
    appendedOk,       \* ids append_email_row returned True for
    exhausted,        \* ids append_email_row returned False for
    marked,           \* ids mark_email_as_read was called for
    saveResult,       \* outcome of _save_state: "none" while not called
    handled,          \* the ids the for loop has taken up, in that order
    fetchedOk,        \* ids get_email_details returned a message for
    softFailed,       \* ids given up on: no message, no record, no row
    markFailed,       \* ids mark_email_as_read returned False for
    \* history of all runs
    bookkeepingLost,  \* a load or save failed, or a run died after an append
    failedBefore,     \* ids append_email_row returned False for in the run before
    markFailedBefore, \* ids mark_email_as_read returned False for in the run before
    \* the parser on its own
    p_payload,
    p_body

vars == <<MAX_RETRIES, SUBJECT_FILTER, mailbox, unread, sheet, stateFile, now, pc,
          processed_ids, emails, idx, counts, attempt, loaded, fileAtStart, site,
          calls, lastOutcome, gateSkipped, fetched, filtered, appendTried,
          appendedOk, exhausted, marked, saveResult, handled, fetchedOk,
          softFailed, markFailed, bookkeepingLost, failedBefore, markFailedBefore,
          p_payload, p_body>>

config == <<MAX_RETRIES, SUBJECT_FILTER, mailbox>>
parserVars == <<p_payload, p_body>>
runHistory == <<loaded, fileAtStart, site, calls, lastOutcome, gateSkipped, fetched,
                filtered, appendTried, appendedOk, exhausted, marked, saveResult,
                handled, fetchedOk, softFailed, markFailed>>
allHistory == <<bookkeepingLost, failedBefore, markFailedBefore>>

\* the locals processed_count and skipped_count before line 77 binds them
NoCounts == [unbound |-> TRUE]
Counts(p, s) == [processed_count |-> p, skipped_count |-> s]

\* no file at STATE_FILE_PATH
NoFile == [status |-> "absent", processed_ids |-> <<>>, last_updated |-> 0]
\* a file that json.load rejects
CorruptFile == [status |-> "corrupt", processed_ids |-> <<>>, last_updated |-> 0]

\* _get_email_body has not been applied yet
NotParsed == [pending |-> TRUE]

\* the configuration and the mailbox the script is started with
ConfigInit ==
    /\ MAX_RETRIES \in 0..MaxRetries
    /\ SUBJECT_FILTER \in Filters
    /\ mailbox \in Mailboxes
    /\ unread \in SUBSET Ids

\* nothing has run yet: an empty sheet, no state file, no process
FreshInit ==
    /\ sheet = [i \in Ids |-> 0]
    /\ stateFile = NoFile
    /\ now = 0
    /\ pc = "idle"
    /\ processed_ids = {}
    /\ emails = <<>>
    /\ idx = 0
    /\ counts = NoCounts
    /\ attempt = 0
    /\ loaded = {}
    /\ fileAtStart = NoFile
    /\ site = "none"
    /\ calls = 0
    /\ lastOutcome = "none"
    /\ gateSkipped = {}
    /\ fetched = {}
    /\ filtered = {}
    /\ appendTried = {}
    /\ appendedOk = {}
    /\ exhausted = {}
    /\ marked = {}
    /\ saveResult = "none"
    /\ handled = <<>>
    /\ fetchedOk = {}
    /\ softFailed = {}
    /\ markFailed = {}
    /\ bookkeepingLost = FALSE
    /\ failedBefore = {}
    /\ markFailedBefore = {}

Init ==
    /\ ConfigInit
    /\ FreshInit
    /\ p_payload = [body |-> [size |-> 0]]
    /\ p_body = NotParsed

(***************************************************************************)
(* EmailProcessor: construction                                            *)
(***************************************************************************)
\* EmailProcessor._load_state; readable says whether open and json.load of an
\* existing file go through
LoadState(readable) ==
    IF stateFile.status = "absent" THEN {}
    ELSE IF readable /\ stateFile.status = "ok" THEN Range(stateFile.processed_ids)
    ELSE {}

\* main(): a process starts and constructs the EmailProcessor
StartRun ==
    /\ pc = "idle"
    /\ now < MaxRuns
    /\ \E readable \in BOOLEAN :
          /\ processed_ids' = LoadState(readable)
          /\ bookkeepingLost' =
                (bookkeepingLost \/ (stateFile.status # "absent" /\
                                     ~(readable /\ stateFile.status = "ok")))
    /\ loaded' = processed_ids'
    /\ fileAtStart' = stateFile
    /\ now' = now + 1
    /\ pc' = "list"
    /\ attempt' = 0
    /\ site' = "list"
    /\ calls' = 0
    /\ lastOutcome' = "none"
    /\ UNCHANGED <<config, unread, sheet, stateFile, emails, idx, counts, gateSkipped,
                   fetched, filtered, appendTried, appendedOk, exhausted, marked,
                   saveResult, handled, fetchedOk, softFailed, markFailed,
                   failedBefore, markFailedBefore, parserVars>>

(***************************************************************************)
(* The retry loops                                                         *)
(***************************************************************************)
\* for attempt in range(max_retries): the loop body runs once more
RetryAllowed == attempt < MAX_RETRIES

\* mutant: off by one, the last attempt sleeps and goes round again
MayRetry_OffByOne == attempt < MAX_RETRIES

\* if attempt < max_retries - 1: sleep and go round again; else give up
MayRetry == attempt < MAX_RETRIES - 1

\* an exception leaves process_emails: logged and re-raised, the process ends
Fatal ==
    /\ pc' = "fatal"
    /\ bookkeepingLost' = (bookkeepingLost \/ appendedOk # {})

\* process_emails after get_unread_emails returned the list msgs
Listed(msgs) ==
    /\ emails' = msgs
    /\ IF msgs = <<>>
       THEN /\ pc' = "done"
            /\ UNCHANGED <<idx, counts>>
       ELSE /\ pc' = "loop"
            /\ idx' = 1
            /\ counts' = Counts(0, 0)

\* GmailService.get_unread_emails: one pass of the retry loop
ListAttempt ==
    /\ pc = "list"
    /\ RetryAllowed
    /\ calls' = calls + 1
    /\ UNCHANGED <<config, unread, sheet, stateFile, now, processed_ids, loaded,
                   fileAtStart, site, gateSkipped, fetched, filtered, appendTried,
                   appendedOk, exhausted, marked, saveResult, handled, fetchedOk,
                   softFailed, markFailed, failedBefore, markFailedBefore,
                   parserVars>>
    /\ \E outcome \in Outcomes :
          /\ lastOutcome' = outcome
          /\ \/ /\ outcome = "ok"
                /\ \E msgs \in Orders(unread) : Listed(msgs)
                /\ UNCHANGED <<attempt, bookkeepingLost>>
             \/ /\ outcome = "api_error"
                /\ MayRetry
                /\ attempt' = attempt + 1
                /\ UNCHANGED <<pc, emails, idx, counts, bookkeepingLost>>
             \/ /\ outcome = "api_error"
                /\ ~MayRetry
                /\ Fatal
                /\ UNCHANGED <<attempt, emails, idx, counts>>
             \/ /\ outcome = "other_error"
                /\ Fatal
                /\ UNCHANGED <<attempt, emails, idx, counts>>

\* GmailService.get_unread_emails: the loop has no pass left to run and ends
\* without having returned or raised: `return emails`, the empty list
ListNoAttempt ==
    /\ pc = "list"
    /\ ~RetryAllowed
    /\ Listed(<<>>)
    /\ UNCHANGED <<config, unread, sheet, stateFile, now, processed_ids, attempt,
                   runHistory, allHistory, parserVars>>

(***************************************************************************)
(* The loop over the listing                                               *)
(***************************************************************************)
message_id == emails[idx]

InLoop == pc = "loop" /\ idx <= Len(emails)

\* mutant: the membership test is left out
AlreadyProcessed_Never(id) == FALSE

\* if message_id in self.processed_ids
AlreadyProcessed(id) == id \in processed_ids

\* mutant: the `not` of the filter test is left out
FilteredOut_Inverted(parsed) ==
    SUBJECT_FILTER # <<>> /\ Contains(SUBJECT_FILTER, parsed.subject)

\* if SUBJECT_FILTER and SUBJECT_FILTER not in parsed["subject"]: skip
FilteredOut(parsed) ==
    SUBJECT_FILTER # <<>> /\ ~Contains(SUBJECT_FILTER, parsed.subject)

\* mutant: the skip is not counted
SkipCounted_Forgotten == counts

\* skipped_count += 1
SkipCounted == Counts(counts.processed_count, counts.skipped_count + 1)

\* mutant: the loop steps over the id after the current one
Continue_SkipsNext ==
    /\ idx' = idx + 2
    /\ pc' = "loop"

\* continue: the for loop moves to the next id
Continue ==
    /\ idx' = idx + 1
    /\ pc' = "loop"

\* the id is in the processed set: counted as skipped, nothing is called
SkipProcessed ==
    /\ InLoop
    /\ AlreadyProcessed(message_id)
    /\ handled' = Append(handled, message_id)
    /\ counts' = SkipCounted
    /\ gateSkipped' = gateSkipped \cup {message_id}
    /\ Continue
    /\ UNCHANGED <<config, unread, sheet, stateFile, now, processed_ids, emails,
                   attempt, loaded, fileAtStart, site, calls, lastOutcome, fetched,
                   filtered, appendTried, appendedOk, exhausted, marked, saveResult,
                   fetchedOk, softFailed, markFailed, allHistory, parserVars>>

\* get_email_details, parse_email and the subject filter for an id that is
\* not in the processed set
Fetch ==
    /\ InLoop
    /\ ~AlreadyProcessed(message_id)
    /\ handled' = Append(handled, message_id)
    /\ fetched' = fetched \cup {message_id}
    /\ attempt' = 0
    /\ calls' = 0
    /\ lastOutcome' = "none"
    /\ UNCHANGED <<config, unread, sheet, stateFile, now, processed_ids, emails,
                   loaded, fileAtStart, gateSkipped, appendTried, appendedOk,
                   exhausted, marked, saveResult, markFailed, failedBefore,
                   markFailedBefore, parserVars>>
    /\ \E outcome \in Outcomes :
          \/ /\ outcome = "ok"
             /\ fetchedOk' = fetchedOk \cup {message_id}
             /\ LET parsed == ParseEmail(mailbox[message_id])
                IN  \/ /\ parsed = None
                       /\ softFailed' = softFailed \cup {message_id}
                       /\ site' = "none"
                       /\ Continue
                       /\ UNCHANGED <<counts, filtered>>
                    \/ /\ parsed # None
                       /\ FilteredOut(parsed)
                       /\ counts' = SkipCounted
                       /\ filtered' = filtered \cup {message_id}
                       /\ site' = "none"
                       /\ Continue
                       /\ UNCHANGED softFailed
                    \/ /\ parsed # None
                       /\ ~FilteredOut(parsed)
                       /\ pc' = "append"
                       /\ site' = "append"
                       /\ UNCHANGED <<idx, counts, filtered, softFailed>>
             /\ UNCHANGED bookkeepingLost
          \/ /\ outcome = "api_error"
             /\ softFailed' = softFailed \cup {message_id}
             /\ site' = "none"
             /\ Continue
             /\ UNCHANGED <<counts, filtered, fetchedOk, bookkeepingLost>>
          \/ /\ outcome = "other_error"
             /\ site' = "none"
             /\ Fatal
             /\ UNCHANGED <<idx, counts, filtered, fetchedOk, softFailed>>

\* mutant: append_email_row reports success after giving up
ExhaustedResult_True == TRUE

\* what append_email_row returns after its last attempt raised GoogleAPIError
ExhaustedResult == FALSE

\* process_emails once append_email_row gave up after its last attempt: on
\* False the error is logged and the loop goes on, on True the id is marked
AfterExhaustion ==
    IF ExhaustedResult
    THEN /\ pc' = "mark"
         /\ UNCHANGED <<idx, exhausted, softFailed>>
    ELSE /\ exhausted' = exhausted \cup {message_id}
         /\ softFailed' = softFailed \cup {message_id}
         /\ Continue

\* SheetsService.append_email_row: one pass of the retry loop.  (Its final
\* `return False` needs max_retries = 0, and then the listing is empty.)
AppendAttempt ==
    /\ pc = "append"
    /\ RetryAllowed
    /\ calls' = calls + 1
    /\ appendTried' = appendTried \cup {message_id}
    /\ UNCHANGED <<config, unread, stateFile, now, processed_ids, emails, counts,
                   loaded, fileAtStart, site, gateSkipped, fetched, filtered, marked,
                   saveResult, handled, fetchedOk, markFailed, failedBefore,
                   markFailedBefore, parserVars>>
    /\ \E outcome \in Outcomes :
          /\ lastOutcome' = outcome
          /\ \/ /\ outcome = "ok"
                /\ sheet' = [sheet EXCEPT ![message_id] = @ + 1]
                /\ appendedOk' = appendedOk \cup {message_id}
                /\ pc' = "mark"
                /\ UNCHANGED <<idx, attempt, exhausted, softFailed, bookkeepingLost>>
             \/ /\ outcome = "api_error"
                /\ MayRetry
                /\ attempt' = attempt + 1
                /\ UNCHANGED <<pc, idx, sheet, appendedOk, exhausted, softFailed,
                               bookkeepingLost>>
             \/ /\ outcome = "api_error"
                /\ ~MayRetry
                /\ AfterExhaustion
                /\ UNCHANGED <<attempt, sheet, appendedOk, bookkeepingLost>>
             \/ /\ outcome = "other_error"
                /\ Fatal
                /\ UNCHANGED <<idx, attempt, sheet, appendedOk, exhausted, softFailed>>

\* mutant: the id is not added
Recorded_Nothing(id) == processed_ids

\* mutant: the set is replaced by the id instead of extended
Recorded_Replacing(id) == {id}

\* self.processed_ids.add(message_id)
Recorded(id) == processed_ids \cup {id}

\* mark_email_as_read, then the id is recorded and counted
MarkRead ==
    /\ pc = "mark"
    /\ marked' = marked \cup {message_id}
    /\ UNCHANGED <<config, sheet, stateFile, now, emails, attempt, loaded,
                   fileAtStart, site, calls, lastOutcome, gateSkipped, fetched,
                   filtered, appendTried, appendedOk, exhausted, saveResult, handled,
                   fetchedOk, softFailed, failedBefore, markFailedBefore,
                   parserVars>>
    /\ \E outcome \in Outcomes :
          \/ /\ outcome = "ok"
             /\ unread' = unread \ {message_id}
             /\ processed_ids' = Recorded(message_id)
             /\ counts' = Counts(counts.processed_count + 1, counts.skipped_count)
             /\ Continue
             /\ UNCHANGED <<markFailed, bookkeepingLost>>
          \/ /\ outcome = "api_error"
             /\ markFailed' = markFailed \cup {message_id}
             /\ processed_ids' = Recorded(message_id)
             /\ counts' = Counts(counts.processed_count + 1, counts.skipped_count)
             /\ Continue
             /\ UNCHANGED <<unread, bookkeepingLost>>
          \/ /\ outcome = "other_error"
             /\ Fatal
             /\ UNCHANGED <<unread, processed_ids, counts, idx, markFailed>>

(***************************************************************************)
(* The end of the run                                                      *)
(***************************************************************************)
\* mutant: the file is written with an empty list
WrittenFile_Empty(order) == [status |-> "ok", processed_ids |-> <<>>, last_updated |-> now]

\* what json.dump writes: the set as a list in some order, and the time
WrittenFile(order) == [status |-> "ok", processed_ids |-> order, last_updated |-> now]

\* EmailProcessor._save_state after the loop: written, not written (makedirs or
\* open failed), or cut short after open truncated the file
SaveState ==
    /\ pc = "loop"
    /\ idx > Len(emails)
    /\ pc' = "done"
    /\ \E result \in {"ok", "not_written", "truncated"} :
          /\ saveResult' = result
          /\ \/ /\ result = "ok"
                /\ \E order \in Orders(processed_ids) : stateFile' = WrittenFile(order)
                /\ UNCHANGED bookkeepingLost
             \/ /\ result = "not_written"
                /\ stateFile' = stateFile
                /\ bookkeepingLost' = TRUE
             \/ /\ result = "truncated"
                /\ stateFile' = CorruptFile
                /\ bookkeepingLost' = TRUE
    /\ UNCHANGED <<config, unread, sheet, now, processed_ids, emails, idx, counts,
                   attempt, loaded, fileAtStart, site, calls, lastOutcome, gateSkipped,
                   fetched, filtered, appendTried, appendedOk, exhausted, marked,
                   handled, fetchedOk, softFailed, markFailed, failedBefore,
                   markFailedBefore, parserVars>>

\* the process ends, normally or with the exception main() re-raises
ExitRun ==
    /\ pc \in {"done", "fatal"}
    /\ pc' = "idle"
    /\ processed_ids' = {}
    /\ emails' = <<>>
    /\ idx' = 0
    /\ counts' = NoCounts
    /\ attempt' = 0
    /\ loaded' = {}
    /\ fileAtStart' = NoFile
    /\ site' = "none"
    /\ calls' = 0
    /\ lastOutcome' = "none"
    /\ gateSkipped' = {}
    /\ fetched' = {}
    /\ filtered' = {}
    /\ appendTried' = {}
    /\ appendedOk' = {}
    /\ exhausted' = {}
    /\ marked' = {}
    /\ saveResult' = "none"
    /\ handled' = <<>>
    /\ fetchedOk' = {}
    /\ softFailed' = {}
    /\ markFailed' = {}
    /\ failedBefore' = exhausted
    /\ markFailedBefore' = markFailed
    /\ UNCHANGED <<config, unread, sheet, stateFile, now, bookkeepingLost, parserVars>>

\* between two runs a message arrives or is flagged unread again
MailArrives ==
    /\ pc = "idle"
    /\ \E id \in Ids \ unread : unread' = unread \cup {id}
    /\ UNCHANGED <<MAX_RETRIES, SUBJECT_FILTER, mailbox, sheet, stateFile, now, pc,
                   processed_ids, emails, idx, counts, attempt, runHistory,
                   allHistory, parserVars>>

Next ==
    \/ StartRun
    \/ ListAttempt
    \/ ListNoAttempt
    \/ SkipProcessed
    \/ Fetch
    \/ AppendAttempt
    \/ MarkRead
    \/ SaveState
    \/ ExitRun
    \/ MailArrives

Spec == Init /\ [][Next]_vars

(***************************************************************************)
(* The parser on its own: _get_email_body applied to any payload           *)
(***************************************************************************)
MimeTypes == {"text/plain", "text/html", "image/png"}

PartSamples ==
    {EmptyPart(m) : m \in MimeTypes}
        \cup {Part(m, d) : m \in MimeTypes, d \in {PlainData, HtmlData, BadData}}

BodySamples ==
    {[size |-> 0]} \cup {[size |-> Len(d), data |-> d] : d \in {PlainData, HtmlData, BadData}}

Payloads ==
    {[headers |-> <<>>, body |-> b] : b \in BodySamples}
        \cup UNION {{[headers |-> <<>>, parts |-> ps] : ps \in [1..n -> PartSamples]} :
                        n \in 0..MaxParts}

ParserInit ==
    /\ MAX_RETRIES = 3
    /\ SUBJECT_FILTER = <<>>
    /\ mailbox = [i \in Ids |-> MsgInvoice]
    /\ unread = {}
    /\ FreshInit
    /\ p_payload \in Payloads
    /\ p_body = NotParsed

\* body = EmailParser._get_email_body(message["payload"])
ParseBody ==
    /\ p_body = NotParsed
    /\ p_body' = GetEmailBody(p_payload)
    /\ UNCHANGED <<config, unread, sheet, stateFile, now, pc, processed_ids, emails,
                   idx, counts, attempt, runHistory, allHistory, p_payload>>

ParserNext == ParseBody

ParserSpec == ParserInit /\ [][ParserNext]_vars

(***************************************************************************)
(* Properties                                                              *)
(***************************************************************************)
FileIds == Range(stateFile.processed_ids)

Running == pc \in {"list", "loop", "append", "mark", "done", "fatal"}

Subject(id) == GetHeader(mailbox[id].payload.headers, "Subject")

C2_ProcessedIdsAreSkipped ==
    /\ gateSkipped \cap (fetched \cup appendTried \cup marked) = {}
    /\ gateSkipped = Range(handled) \cap loaded
    /\ fetched = Range(handled) \ loaded
    /\ counts # NoCounts =>
          counts.skipped_count = Cardinality(gateSkipped) + Cardinality(filtered)
    /\ (/\ pc = "done"
        /\ Len(emails) = 2
        /\ Cardinality(Range(emails) \cap loaded) = 1
        /\ Range(emails) \ loaded \subseteq appendedOk)
          => /\ counts = Counts(1, 1)
             /\ fetched = Range(emails) \ loaded
             /\ appendTried = fetched

\* the listing [A, B] with only A in the set: B is appended, A is skipped
C2_Witness ==
    /\ pc = "done"
    /\ emails = <<"A", "B">>
    /\ loaded = {"A"}
    /\ gateSkipped = {"A"}
    /\ appendedOk = {"B"}
    /\ counts = Counts(1, 1)

\* C3: an id whose append gave up after the last attempt is neither recorded
\* nor marked read, nor is it in the file the run saves; an id without a row
\* is never in the processed set, so a later run that lists it fetches it
\* and, given the message, calls append again.
C3_FailedAppendIsRetried ==
    /\ exhausted \cap (processed_ids \cup marked \cup appendedOk) = {}
    /\ exhausted \subseteq appendTried
    /\ (pc = "done" /\ saveResult = "ok") => FileIds \cap exhausted = {}
    /\ \A id \in Ids : sheet[id] = 0 => id \notin processed_ids /\ id \notin FileIds
    /\ \A id \in failedBefore :
          sheet[id] = 0 =>
             /\ id \in unread
             /\ id \notin gateSkipped
             /\ id \in Range(handled) => id \in fetched
             /\ id \in fetchedOk =>
                   id \in appendTried \/ (pc = "append" /\ message_id = id)

\* a second run calls append for an id the first run gave up on
C3_Witness ==
    /\ now = 2
    /\ \E id \in failedBefore : id \in appendTried /\ id \in unread /\ sheet[id] = 0

C5_EveryCompletedRunSaves ==
    (pc = "done" /\ (emails = <<>> => lastOutcome = "ok")) =>
        /\ saveResult # "none"
        /\ saveResult = "ok" =>
              /\ stateFile.status = "ok"
              /\ FileIds = processed_ids
              /\ stateFile.last_updated = now
        /\ emails = <<>> => counts = Counts(0, 0) /\ processed_ids = loaded

\* C5 amended: a run over an empty listing returns before the counters are
\* bound and without calling _save_state, so the file stays as the run found
\* it; a run over a non-empty listing that completes calls _save_state, and
\* a successful write leaves exactly the processed set in the file.
C5_OnlyNonEmptyRunsSave ==
    /\ (pc = "done" /\ emails = <<>>) =>
          /\ saveResult = "none"
          /\ stateFile = fileAtStart
          /\ counts = NoCounts
          /\ processed_ids = loaded
          /\ fetched \cup appendTried \cup marked = {}
    /\ (pc = "done" /\ emails # <<>>) =>
          /\ saveResult # "none"
          /\ saveResult = "ok" =>
                /\ stateFile.status = "ok"
                /\ FileIds = processed_ids
                /\ Len(stateFile.processed_ids) = Cardinality(processed_ids)
                /\ stateFile.last_updated = now
                /\ loaded \cup appendedOk \subseteq FileIds

\* the second run finds nothing unread and leaves the first run's file as it is
C5_Witness ==
    /\ pc = "done"
    /\ emails = <<>>
    /\ calls = 1
    /\ now = 2
    /\ stateFile.status = "ok"
    /\ FileIds # {}
    /\ stateFile.last_updated = 1

\* the id of the latest iteration that was not a skip
LastFetched ==
    LET js == {i \in 1..Len(handled) : handled[i] \notin gateSkipped}
    IN  handled[CHOOSE i \in js : \A j \in js : j <= i]

\* what both retry loops have in common: never more than MAX_RETRIES calls, a
\* further call only after a provider error, none after a success
RetryDiscipline ==
    /\ calls <= MAX_RETRIES
    /\ pc \in {"list", "append"} =>
          /\ calls = attempt
          /\ lastOutcome = (IF calls = 0 THEN "none" ELSE "api_error")
          /\ lastOutcome = "api_error" => calls < MAX_RETRIES
    /\ (site = "list" /\ pc = "fatal" /\ lastOutcome = "api_error") =>
          calls = MAX_RETRIES
    /\ (site = "append" /\ pc # "append" /\ lastOutcome \notin {"ok", "other_error"}) =>
          /\ calls = MAX_RETRIES
          /\ pc \in {"loop", "done"}
          /\ LastFetched \in exhausted
          /\ LastFetched \notin processed_ids

PartsOf(mime) ==
    IF "parts" \in DOMAIN p_payload
    THEN {i \in 1..Len(p_payload.parts) : p_payload.parts[i].mimeType = mime}
    ELSE {}

First(S) == CHOOSE i \in S : \A j \in S : i <= j

\* the text a part holds: what its data decodes to, nothing without data
TextOf(part) ==
    IF HasData(part) /\ ~DecodeData(part.body.data).raised
    THEN DecodeData(part.body.data).value
    ELSE <<>>

PlainWithData == {i \in PartsOf("text/plain") : HasData(p_payload.parts[i])}

\* the parts _get_email_body decodes up to and including part k
DecodedUpTo(k) ==
    {k} \cup {i \in PartsOf("text/html") : i < k /\ HasData(p_payload.parts[i])}

C8_SubjectFilter ==
    /\ \A id \in appendTried :
          SUBJECT_FILTER = <<>> \/ Contains(SUBJECT_FILTER, Subject(id))
    /\ \A id \in filtered :
          /\ SUBJECT_FILTER # <<>>
          /\ ~Contains(SUBJECT_FILTER, Subject(id))
          /\ id \notin appendTried \cup marked \cup processed_ids
    /\ SUBJECT_FILTER = <<>> => filtered = {}
    /\ \A id \in fetchedOk \ (softFailed \ exhausted) :
          IF SUBJECT_FILTER # <<>> /\ ~Contains(SUBJECT_FILTER, Subject(id))
          THEN id \in filtered
          ELSE id \in appendTried \/ (pc = "append" /\ message_id = id)
    /\ counts # NoCounts =>
          counts.skipped_count = Cardinality(gateSkipped) + Cardinality(filtered)

\* filter "b": the message with subject "a" is skipped, the one with subject
\* "ab" gets its row
C8_Witness ==
    /\ SUBJECT_FILTER = <<"b">>
    /\ pc = "done"
    /\ \E i, j \in Ids :
          /\ Subject(i) = <<"a">> /\ i \in filtered /\ sheet[i] = 0
          /\ Subject(j) = <<"a", "b">> /\ j \in appendedOk
    /\ counts = Counts(1, 1)

\* C9: the ids are taken up in listing order; an id given up on (no message,
\* no record, no row) is behind the loop, which goes on; a run that completes
\* has taken up every id and has called _save_state; a run under way is
\* never stuck: the loop is at an id or at its end, and a retry loop that
\* has not returned has an attempt left.
C9_FailureDoesNotAbort ==
    /\ handled = SubSeq(emails, 1, Len(handled))
    /\ pc = "loop" => Len(handled) = idx - 1
    /\ pc \in {"append", "mark"} => Len(handled) = idx
    /\ softFailed \subseteq Range(handled)
    /\ (pc \in {"append", "mark", "fatal"} /\ idx >= 1) => emails[idx] \notin softFailed
    /\ (pc = "done" /\ emails # <<>>) => handled = emails /\ saveResult # "none"
    /\ pc = "loop" => idx \in 1..(Len(emails) + 1)
    /\ pc \in {"append", "mark"} => idx \in 1..Len(emails)
    /\ pc = "append" => attempt < MAX_RETRIES

\* the first id of the listing was given up on, the second got its row, and
\* the state was saved
C9_Witness ==
    /\ pc = "done"
    /\ Len(emails) = 2
    /\ emails[1] \in softFailed
    /\ emails[2] \in appendedOk
    /\ saveResult = "ok"

\* C10 as stated: at every point of a run the processed set is the loaded set
\* with the ids whose append has returned True in this run.
C10_SetIsLoadedPlusAppended == Running => processed_ids = loaded \cup appendedOk

\* the id whose append has returned True and whose mark-read call has not
\* returned yet, or has raised
InMarkRead == IF pc \in {"mark", "fatal"} /\ idx >= 1 THEN {emails[idx]} ELSE {}

\* C10 amended: the same at every point but one: the id just appended is added
\* only once its mark-read call has returned, so it is missing during that
\* call, and for good when the call raises a foreign error.  No id is removed,
\* no id is added on a skip, a fetch miss, a parse failure, a filtered subject
\* or a failed append.
C10_SetIsLoadedPlusMarked ==
    Running =>
        /\ loaded \subseteq processed_ids
        /\ processed_ids \subseteq loaded \cup appendedOk
        /\ appendedOk \ processed_ids \subseteq InMarkRead
        /\ pc \in {"list", "loop", "append", "done"} =>
              processed_ids = loaded \cup appendedOk
        /\ processed_ids \cap (softFailed \cup filtered \cup exhausted) = {}
        /\ gateSkipped \subseteq loaded

\* a run that loaded one id has added another
C10_Witness ==
    /\ pc = "loop"
    /\ loaded # {}
    /\ appendedOk # {}
    /\ processed_ids = loaded \cup appendedOk
    /\ processed_ids # loaded

=============================================================================
